---- MODULE Spec2Model ----
(***************************************************************************)
(* A model of simpleio.py: map_range, bitWrite, shift_in, shift_out,       *)
(* Servo.angle and tone.  Each family of operations has its own            *)
(* specification (SpecMap, SpecBit, SpecShift, SpecServo, SpecTone); the   *)
(* variables of the other families stay at their initial values.           *)
(*                                                                         *)
(* Python numbers that may be fractions (the result of "/") are modelled   *)
(* exactly, as records [num, den] with den > 0.                            *)
(***************************************************************************)
EXTENDS Integers, Sequences, FiniteSets

VARIABLES
    \* map_range
    x, in_min, in_max, out_min, out_max, mpc, mres,
    \* bitWrite
    bx, bn, bb, bpc, bres,
    \* shift_out / shift_in on a data line and a clock line: value is the
    \* caller's byte, local is shift_out's own value (after its mask), acc is
    \* shift_in's value, ret what shift_in returned
    value, msb_out, msb_in, call, i, step, local, data_pin, clock,
    log, log1, acc, ret,
    \* Servo: angle is self._angle, duty_cycle is self.pwm.duty_cycle
    min_pulse, max_pulse, angle, duty_cycle, assigned,
    \* tone: output is the device tone drives (AudioOut or PWMOut)
    frequency, audio, tpc, square_wave, output

mapVars   == <<x, in_min, in_max, out_min, out_max, mpc, mres>>
bitVars   == <<bx, bn, bb, bpc, bres>>
shiftVars == <<value, msb_out, msb_in, call, i, step, local, data_pin, clock,
               log, log1, acc, ret>>
servoVars == <<min_pulse, max_pulse, angle, duty_cycle, assigned>>
toneVars  == <<frequency, audio, tpc, square_wave, output>>
vars      == <<mapVars, bitVars, shiftVars, servoVars, toneVars>>

\* What each family of operations leaves alone.
mapOthers   == <<bitVars, shiftVars, servoVars, toneVars>>
bitOthers   == <<mapVars, shiftVars, servoVars, toneVars>>
shiftOthers == <<mapVars, bitVars, servoVars, toneVars>>
servoOthers == <<mapVars, bitVars, shiftVars, toneVars>>
toneOthers  == <<mapVars, bitVars, shiftVars, servoVars>>

None == "None"

-----------------------------------------------------------------------------
(* Bounds of the model.                                                    *)

\* map_range arguments range over -MaxVal..MaxVal and the DemoVals.
MaxVal == 2
DemoVals == {5, 10, 100}
Vals == (-MaxVal .. MaxVal) \cup DemoVals

\* bitWrite's x ranges over 0..MaxX.
MaxX == 600

\* shift_out's value ranges over -NegValues..MaxValue.
NegValues == 2
MaxValue == 511
Values == (-NegValues) .. MaxValue

-----------------------------------------------------------------------------
(* Exact fractions.                                                        *)

RECURSIVE Gcd(_, _)
Gcd(a, b) == IF b = 0 THEN a ELSE Gcd(b, a % b)
Abs(n) == IF n < 0 THEN -n ELSE n

\* n/d for d # 0, in lowest terms with a positive denominator.
Frac(n, d) ==
    LET g == Gcd(Abs(n), Abs(d))
        s == IF d < 0 THEN -1 ELSE 1
    IN  [num |-> s * (n \div g), den |-> s * (d \div g)]
FromInt(n) == [num |-> n, den |-> 1]
FracAdd(a, b) == Frac(a.num * b.den + b.num * a.den, a.den * b.den)
FracSub(a, b) == Frac(a.num * b.den - b.num * a.den, a.den * b.den)
FracMul(a, b) == Frac(a.num * b.num, a.den * b.den)
FracDiv(a, b) == Frac(a.num * b.den, a.den * b.num)
FracLt(a, b) == a.num * b.den < b.num * a.den
FracLe(a, b) == a.num * b.den <= b.num * a.den

\* int(f): truncation towards zero.
PyInt(f) == IF f.num >= 0 THEN f.num \div f.den ELSE -((-f.num) \div f.den)

\* Python's builtin min(a, b) and max(a, b) of two arguments: the first
\* argument is kept on a tie.
PyMin(a, b) == IF FracLt(b, a) THEN b ELSE a
PyMax(a, b) == IF FracLt(a, b) THEN b ELSE a

-----------------------------------------------------------------------------
(* map_range                                                               *)

Return(v) == [kind |-> "return", val |-> v]
Raise(e)  == [kind |-> "raise", exc |-> e]

\* t = (x-in_min) * (out_max - out_min) / (in_max-in_min) + out_min
Interpolate(px, imin, imax, omin, omax) ==
    FracAdd(Frac((px - imin) * (omax - omin), imax - imin), FromInt(omin))

\* map_range without its clamp.
MapRangeNoClamp(px, imin, imax, omin, omax) ==
    IF imax - imin = 0
    THEN Raise("ZeroDivisionError")
    ELSE Return(Interpolate(px, imin, imax, omin, omax))

\* map_range clamping as if the target interval were always ascending.
MapRangeAscendingClamp(px, imin, imax, omin, omax) ==
    IF imax - imin = 0
    THEN Raise("ZeroDivisionError")
    ELSE LET t == Interpolate(px, imin, imax, omin, omax)
         IN  Return(PyMax(PyMin(t, FromInt(omax)), FromInt(omin)))

map_range(px, imin, imax, omin, omax) ==
    IF imax - imin = 0
    THEN Raise("ZeroDivisionError")
    ELSE LET t == Interpolate(px, imin, imax, omin, omax)
         IN  IF omin <= omax
             THEN Return(PyMax(PyMin(t, FromInt(omax)), FromInt(omin)))
             ELSE Return(PyMin(PyMax(t, FromInt(omax)), FromInt(omin)))

MapInit ==
    /\ x \in Vals
    /\ in_min \in Vals
    /\ in_max \in Vals
    /\ out_min \in Vals
    /\ out_max \in Vals
    /\ mpc = "call"
    /\ mres = None

MapRangeCall ==
    /\ mpc = "call"
    /\ mres' = map_range(x, in_min, in_max, out_min, out_max)
    /\ mpc' = "done"
    /\ UNCHANGED <<x, in_min, in_max, out_min, out_max>>
    /\ UNCHANGED mapOthers

-----------------------------------------------------------------------------
(* Python's integer bit operations.                                        *)

RECURSIVE BitAnd(_, _)
\* a & b for b >= 0 (a of either sign: two's complement).
BitAnd(a, b) ==
    IF b = 0 THEN 0
    ELSE (a % 2) * (b % 2) + 2 * BitAnd(a \div 2, b \div 2)

RECURSIVE BitOr(_, _)
\* a | b for a >= 0 and b >= 0.
BitOr(a, b) ==
    IF a = 0 THEN b
    ELSE IF b = 0 THEN a
    ELSE (IF a % 2 = 1 \/ b % 2 = 1 THEN 1 ELSE 0) + 2 * BitOr(a \div 2, b \div 2)

\* 1 << n
Shl1(n) == 2 ^ n

\* ~a
BitNot(a) == -a - 1

-----------------------------------------------------------------------------
(* bitWrite                                                                *)

bitWrite(px, n, b) ==
    IF b = 1
    THEN BitOr(px, BitAnd(Shl1(n), 255))
    ELSE BitAnd(px, BitAnd(BitNot(Shl1(n)), 255))

BitPositions == 0 .. 7

BitInit ==
    /\ bx \in 0 .. MaxX
    /\ bn \in BitPositions
    /\ bb \in {0, 1}
    /\ bpc = "call"
    /\ bres = None

BitWriteCall ==
    /\ bpc = "call"
    /\ bres' = bitWrite(bx, bn, bb)
    /\ bpc' = "done"
    /\ UNCHANGED <<bx, bn, bb>>
    /\ UNCHANGED bitOthers

-----------------------------------------------------------------------------
(* shift_out and shift_in, one line operation per step.                    *)
(*                                                                         *)
(* The caller drives a data line and a clock line: it shifts value out,    *)
(* shifts value & 0xFF out, and then shifts a byte in while the data line  *)
(* presents, at the i-th sample, the level the first shift_out wrote for   *)
(* its i-th bit (loopback).  log is the sequence of line operations of the *)
(* call in progress, log1 the log of the first shift_out.                  *)

Ev(line, op, level, clk) == [line |-> line, op |-> op, level |-> level, clk |-> clk]

\* value = value&0xFF, with the value saturated at 0xFF instead.
Mask8Saturate(v) == IF v > 255 THEN 255 ELSE IF v < 0 THEN 0 ELSE v

\* value = value&0xFF
Mask8(v) == BitAnd(v, 255)

\* The bit index of iteration k, ignoring msb_first.
OutBitIndexMsbOnly(msb, k) == 7 - k

\* shift_out: bit 7-i when msb_first, bit i otherwise
OutBitIndex(msb, k) == IF msb THEN 7 - k ELSE k

\* The shift of iteration k, with the two bit orders swapped.
InBitIndexSwapped(msb, k) == IF msb THEN k ELSE 7 - k

\* The shift of iteration k, ignoring msb_first.
InBitIndexMsbOnly(msb, k) == 7 - k

\* shift_in: << (7-i) when msb_first, << i otherwise
InBitIndex(msb, k) == IF msb THEN 7 - k ELSE k

\* bool(value & (1 << n))
TestBit(v, n) == BitAnd(v, Shl1(n)) # 0

\* The levels written to the data line, in order.
DataWrites(lg) ==
    LET w == SelectSeq(lg, LAMBDA e : e.line = "data" /\ e.op = "write")
    IN  [k \in 1 .. Len(w) |-> w[k].level]

\* What the caller passes in its second call.
Low8(v) == v % 256

ShiftInit ==
    /\ value \in Values
    /\ msb_out \in BOOLEAN
    /\ msb_in = None
    /\ call = "start"
    /\ i = 0
    /\ step = "idle"
    /\ local = None
    /\ data_pin = FALSE
    /\ clock = FALSE
    /\ log = <<>>
    /\ log1 = <<>>
    /\ acc = None
    /\ ret = None

\* shift_out is entered with argument arg: value = value&0xFF, then the loop.
ShiftOutEnter(this, arg) ==
    /\ call' = this
    /\ local' = Mask8(arg)
    /\ i' = 0
    /\ step' = "data"
    /\ log' = <<>>

CallShiftOut ==
    /\ call = "start"
    /\ ShiftOutEnter("out1", value)
    /\ UNCHANGED <<value, msb_out, msb_in, data_pin, clock, log1, acc, ret>>
    /\ UNCHANGED shiftOthers

CallShiftOutMasked ==
    /\ call = "out1"
    /\ step = "return"
    /\ log1' = log
    /\ ShiftOutEnter("out2", Low8(value))
    /\ UNCHANGED <<value, msb_out, msb_in, data_pin, clock, acc, ret>>
    /\ UNCHANGED shiftOthers

\* data_pin.value = tmpval
ShiftOutData ==
    /\ call \in {"out1", "out2"}
    /\ step = "data"
    /\ LET tmpval == TestBit(local, OutBitIndex(msb_out, i))
       IN  /\ data_pin' = tmpval
           /\ log' = Append(log, Ev("data", "write", tmpval, clock))
    /\ step' = "high"
    /\ UNCHANGED <<value, msb_out, msb_in, call, i, local, clock, log1, acc, ret>>
    /\ UNCHANGED shiftOthers

\* clock.value = True
ShiftOutClockHigh ==
    /\ call \in {"out1", "out2"}
    /\ step = "high"
    /\ clock' = TRUE
    /\ log' = Append(log, Ev("clock", "write", TRUE, clock))
    /\ step' = "low"
    /\ UNCHANGED <<value, msb_out, msb_in, call, i, local, data_pin, log1, acc, ret>>
    /\ UNCHANGED shiftOthers

\* clock.value = False, and the next i of range(0, 8)
ShiftOutClockLow ==
    /\ call \in {"out1", "out2"}
    /\ step = "low"
    /\ clock' = FALSE
    /\ log' = Append(log, Ev("clock", "write", FALSE, clock))
    /\ i' = i + 1
    /\ step' = IF i + 1 < 8 THEN "data" ELSE "return"
    /\ UNCHANGED <<value, msb_out, msb_in, call, local, data_pin, log1, acc, ret>>
    /\ UNCHANGED shiftOthers

\* The level the data line presents to the i-th sample of shift_in.
Loopback(k) == DataWrites(log1)[k + 1]

\* shift_in is entered: value = 0, i = 0, then the loop.
CallShiftIn ==
    /\ call = "out2"
    /\ step = "return"
    /\ \E m \in BOOLEAN : msb_in' = m
    /\ call' = "in"
    /\ acc' = 0
    /\ i' = 0
    /\ step' = "read"
    /\ log' = <<>>
    /\ UNCHANGED <<value, msb_out, local, data_pin, clock, log1, ret>>
    /\ UNCHANGED shiftOthers

\* value |= ((data_pin.value) << (7-i))   or   value |= ((data_pin.value) << i)
ShiftInRead ==
    /\ call = "in"
    /\ step = "read"
    /\ LET level == Loopback(i)
           bit == IF level THEN Shl1(InBitIndex(msb_in, i)) ELSE 0
       IN  /\ data_pin' = level
           /\ acc' = BitOr(acc, bit)
           /\ log' = Append(log, Ev("data", "read", level, clock))
    /\ step' = "high"
    /\ UNCHANGED <<value, msb_out, msb_in, call, i, local, clock, log1, ret>>
    /\ UNCHANGED shiftOthers

\* clock.value = True
ShiftInClockHigh ==
    /\ call = "in"
    /\ step = "high"
    /\ clock' = TRUE
    /\ log' = Append(log, Ev("clock", "write", TRUE, clock))
    /\ step' = "low"
    /\ UNCHANGED <<value, msb_out, msb_in, call, i, local, data_pin, log1, acc, ret>>
    /\ UNCHANGED shiftOthers

\* clock.value = False; i += 1 is overwritten by the next i of range(0, 8)
ShiftInClockLow ==
    /\ call = "in"
    /\ step = "low"
    /\ clock' = FALSE
    /\ log' = Append(log, Ev("clock", "write", FALSE, clock))
    /\ i' = i + 1
    /\ step' = IF i + 1 < 8 THEN "read" ELSE "return"
    /\ UNCHANGED <<value, msb_out, msb_in, call, local, data_pin, log1, acc, ret>>
    /\ UNCHANGED shiftOthers

\* return value
ShiftInReturn ==
    /\ call = "in"
    /\ step = "return"
    /\ ret' = acc
    /\ call' = "done"
    /\ step' = "idle"
    /\ UNCHANGED <<value, msb_out, msb_in, i, local, data_pin, clock, log, log1, acc>>
    /\ UNCHANGED shiftOthers

-----------------------------------------------------------------------------
(* Servo.  Pulse widths are fractions of a millisecond.                    *)

\* Constructor arguments: min_pulse and max_pulse in tenths of a millisecond.
MinPulseTenths == 3 .. 7
MaxPulseTenths == 20 .. 25
\* Assigned angles: the multiples of DegStep in -DegStep .. MaxDegrees.
DegStep == 15
MaxDegrees == 195
Degrees == {d \in (-DegStep) .. MaxDegrees : d % DegStep = 0}

ServoInit ==
    /\ \E lo \in MinPulseTenths : min_pulse = Frac(lo, 10)
    /\ \E hi \in MaxPulseTenths : max_pulse = Frac(hi, 10)
    /\ FracLt(min_pulse, max_pulse)
    /\ angle = None
    /\ duty_cycle = 0
    /\ assigned = <<>>

\* self._angle = max(min(180, degrees), 0)
ClampAngle(degrees) ==
    PyMax(PyMin(FromInt(180), FromInt(degrees)), FromInt(0)).num

\* pulse_width = 0.5 + (self._angle / 180) * (self.max_pulse - self.min_pulse)
PulseWidth(a, lo, hi) ==
    FracAdd(Frac(5, 10),
            FracMul(FracDiv(FromInt(a), FromInt(180)), FracSub(hi, lo)))

\* duty_percent = pulse_width / 20.0; int(duty_percent * 65535)
DutyCycle(pulse_width) ==
    PyInt(FracMul(FracDiv(pulse_width, FromInt(20)), FromInt(65535)))

\* The angle setter; assigned holds the value it was last given.
SetAngle ==
    \E degrees \in Degrees :
        /\ assigned' = <<degrees>>
        /\ angle' = ClampAngle(degrees)
        /\ duty_cycle' = DutyCycle(PulseWidth(angle', min_pulse, max_pulse))
        /\ UNCHANGED <<min_pulse, max_pulse>>
        /\ UNCHANGED servoOthers

-----------------------------------------------------------------------------
(* tone                                                                    *)

\* Frequencies passed to tone.
MinFreq == 300
MaxFreq == 2100
Frequencies == MinFreq .. MaxFreq

\* audio is what the board does at audioio.AudioOut(pin, square_wave): it
\* works, audioio was never imported (NameError), or AudioOut refuses
\* (ValueError).
AudioOutcomes == {"ok", "NameError", "ValueError"}

ToneInit ==
    /\ frequency \in Frequencies
    /\ audio \in AudioOutcomes
    /\ tpc = "call"
    /\ square_wave = <<>>
    /\ output = None

\* length = 4000 // frequency
WaveLength(f) == 4000 \div f

\* square_wave = array.array("H", [0] * length), then length appends.
SquareWave(length) ==
    [k \in 1 .. length |-> 0] \o
    [k \in 1 .. length |-> IF 2 * (k - 1) < length THEN 65535 ELSE 0]

\* with audioio.AudioOut(pin, square_wave) as waveform: waveform.play(loop=True)
TonePlayAudio ==
    /\ tpc = "call"
    /\ audio = "ok"
    /\ square_wave' = SquareWave(WaveLength(frequency))
    /\ output' = [dev |-> "AudioOut", buffer |-> square_wave', loop |-> TRUE]
    /\ tpc' = "sleep"
    /\ UNCHANGED <<frequency, audio>>
    /\ UNCHANGED toneOthers

\* except (NameError, ValueError): PWMOut at the frequency, duty_cycle = 0x8000
TonePWM ==
    /\ tpc = "call"
    /\ audio \in {"NameError", "ValueError"}
    /\ square_wave' = SquareWave(WaveLength(frequency))
    /\ output' = [dev |-> "PWMOut", frequency |-> frequency, duty_cycle |-> 32768]
    /\ tpc' = "sleep"
    /\ UNCHANGED <<frequency, audio>>
    /\ UNCHANGED toneOthers

\* time.sleep(duration) is over: waveform.stop() and the with block's exit
ToneStop ==
    /\ tpc = "sleep"
    /\ output' = None
    /\ tpc' = "done"
    /\ UNCHANGED <<frequency, audio, square_wave>>
    /\ UNCHANGED toneOthers

-----------------------------------------------------------------------------
(* Specifications.                                                         *)

MapIdle ==
    /\ x = 0 /\ in_min = 0 /\ in_max = 0 /\ out_min = 0 /\ out_max = 0
    /\ mpc = "idle" /\ mres = None
BitIdle ==
    /\ bx = 0 /\ bn = 0 /\ bb = 0 /\ bpc = "idle" /\ bres = None
ShiftIdle ==
    /\ value = 0 /\ msb_out = TRUE /\ msb_in = None /\ call = "idle" /\ i = 0
    /\ step = "idle" /\ local = None /\ data_pin = FALSE /\ clock = FALSE
    /\ log = <<>> /\ log1 = <<>> /\ acc = None /\ ret = None
ServoIdle ==
    /\ min_pulse = None /\ max_pulse = None /\ angle = None /\ duty_cycle = None
    /\ assigned = <<>>
ToneIdle ==
    /\ frequency = 0 /\ audio = None /\ tpc = "idle" /\ square_wave = <<>>
    /\ output = None

InitMap   == MapInit /\ BitIdle /\ ShiftIdle /\ ServoIdle /\ ToneIdle
InitBit   == MapIdle /\ BitInit /\ ShiftIdle /\ ServoIdle /\ ToneIdle
InitShift == MapIdle /\ BitIdle /\ ShiftInit /\ ServoIdle /\ ToneIdle
InitServo == MapIdle /\ BitIdle /\ ShiftIdle /\ ServoInit /\ ToneIdle
InitTone  == MapIdle /\ BitIdle /\ ShiftIdle /\ ServoIdle /\ ToneInit

MapNext == MapRangeCall
BitNext == BitWriteCall
ShiftNext ==
    \/ CallShiftOut
    \/ ShiftOutData
    \/ ShiftOutClockHigh
    \/ ShiftOutClockLow
    \/ CallShiftOutMasked
    \/ CallShiftIn
    \/ ShiftInRead
    \/ ShiftInClockHigh
    \/ ShiftInClockLow
    \/ ShiftInReturn
ServoNext == SetAngle
ToneNext ==
    \/ TonePlayAudio
    \/ TonePWM
    \/ ToneStop

SpecMap   == InitMap /\ [][MapNext]_vars
SpecBit   == InitBit /\ [][BitNext]_vars
SpecShift == InitShift /\ [][ShiftNext]_vars
SpecServo == InitServo /\ [][ServoNext]_vars
SpecTone  == InitTone /\ [][ToneNext]_vars

-----------------------------------------------------------------------------
(* Properties of map_range (SpecMap).                                      *)

TargetLo == IF out_min <= out_max THEN out_min ELSE out_max
TargetHi == IF out_min <= out_max THEN out_max ELSE out_min
SourceLo == IF in_min <= in_max THEN in_min ELSE in_max
SourceHi == IF in_min <= in_max THEN in_max ELSE in_min

\* C1: whenever in_min # in_max, map_range returns a value in the closed
\* interval [min(out_min, out_max), max(out_min, out_max)], for an ascending
\* or a descending target interval and for x inside or outside the source
\* interval.
C1_ResultWithinTarget ==
    (mpc = "done" /\ in_min # in_max) =>
        /\ mres.kind = "return"
        /\ FracLe(FromInt(TargetLo), mres.val)
        /\ FracLe(mres.val, FromInt(TargetHi))

\* A descending target, x beyond the source interval, the result clamped.
C1_Witness ==
    /\ mpc = "done"
    /\ in_min < in_max
    /\ x > in_max
    /\ out_min > out_max
    /\ mres = Return(FromInt(out_max))

\* C2: with x == in_min == in_max, map_range raises nothing and returns the
\* midpoint (out_min + out_max) / 2 of the target interval.
C2_DegenerateMidpoint ==
    (mpc = "done" /\ in_min = in_max /\ x = in_min) =>
        /\ mres.kind = "return"
        /\ mres.val = Frac(out_min + out_max, 2)

\* C3: whenever in_min # in_max and x lies between in_min and in_max,
\* map_range returns exactly
\* (x - in_min) * (out_max - out_min) / (in_max - in_min) + out_min, also for
\* a descending target: x = in_min gives out_min, x = in_max gives out_max,
\* and map_range(5, 0, 10, 100, 0) = 50.
C3_ExactInterpolation ==
    (mpc = "done" /\ in_min # in_max /\ SourceLo <= x /\ x <= SourceHi) =>
        /\ mres.kind = "return"
        /\ mres.val.num * (in_max - in_min) =
              ((x - in_min) * (out_max - out_min) + out_min * (in_max - in_min))
                * mres.val.den
        /\ (x = in_min => mres.val = FromInt(out_min))
        /\ (x = in_max => mres.val = FromInt(out_max))
        /\ (x = 5 /\ in_min = 0 /\ in_max = 10 /\ out_min = 100 /\ out_max = 0
              => mres.val = FromInt(50))

\* map_range(5, 0, 10, 100, 0) has returned 50.
C3_Witness ==
    /\ mpc = "done"
    /\ x = 5 /\ in_min = 0 /\ in_max = 10 /\ out_min = 100 /\ out_max = 0
    /\ mres = Return(FromInt(50))

-----------------------------------------------------------------------------
(* Properties of shift_out and shift_in (SpecShift).                       *)

\* Bit n of v, by arithmetic.
ArithBit(v, n) == (v \div (2 ^ n)) % 2

\* The byte whose bit 7-n is bit n of v.
Reverse8(v) ==
    ArithBit(v, 0) * 128 + ArithBit(v, 1) * 64 + ArithBit(v, 2) * 32
    + ArithBit(v, 3) * 16 + ArithBit(v, 4) * 8 + ArithBit(v, 5) * 4
    + ArithBit(v, 6) * 2 + ArithBit(v, 7)

\* A log without the clock levels seen by its operations.
Ops(lg) == [k \in 1 .. Len(lg) |-> <<lg[k].line, lg[k].op, lg[k].level>>]

IsPrefix(a, b) == Len(a) <= Len(b) /\ a = SubSeq(b, 1, Len(a))

\* C4: in loopback, for a byte v in 0..255, shift_in returns v when it reads
\* in the bit order shift_out wrote in, and the bit-reversed byte otherwise
\* (0b10110010 written MSB-first and read LSB-first gives 0b01001101).
C4_LoopbackRoundTrip ==
    (call = "done" /\ value \in 0 .. 255) =>
        /\ ret = IF msb_in = msb_out THEN value ELSE Reverse8(value)
        /\ (value = 178 /\ msb_out /\ ~msb_in => ret = 77)

\* 0b10110010 went out MSB-first and came back LSB-first as 0b01001101.
C4_Witness ==
    /\ call = "done"
    /\ value = 178 /\ msb_out = TRUE /\ msb_in = FALSE
    /\ ret = 77

\* C5: shift_out(value) makes exactly the data-line and clock-line writes of
\* shift_out(value & 0xFF), in either bit order; 0x1FF behaves as 0xFF.
C5_MaskedCallSameWrites ==
    (call = "out2" /\ step = "return") => log = log1

\* Both calls have returned for value = 0x1FF.
C5_Witness ==
    /\ call = "out2" /\ step = "return"
    /\ value = 511
    /\ Len(log1) = 24 /\ Len(log) = 24

\* The writes of one shift_out call of v: per bit, data, clock high, clock low.
ExpectedOut(v, msb) ==
    [k \in 1 .. 24 |->
        LET n == (k - 1) \div 3
        IN  CASE (k - 1) % 3 = 0 ->
                   <<"data", "write", ArithBit(v, IF msb THEN 7 - n ELSE n) = 1>>
              [] (k - 1) % 3 = 1 -> <<"clock", "write", TRUE>>
              [] OTHER -> <<"clock", "write", FALSE>>]

ClockWrites(lg) == SelectSeq(lg, LAMBDA e : e.line = "clock" /\ e.op = "write")

\* C6: a shift_out call writes, for i = 0..7 in order, the data line (bit
\* 7-i of value when msb_first, bit i otherwise), then clock high, then clock
\* low; when it returns it has made 8 clock-high and 8 clock-low writes,
\* alternating, and the clock is low.
C6_ShiftOutSequence ==
    (call = "out1") =>
        /\ IsPrefix(Ops(log), ExpectedOut(value, msb_out))
        /\ Len(log) = 3 * i + (CASE step = "high" -> 1 [] step = "low" -> 2 [] OTHER -> 0)
        /\ (step = "return" =>
              LET cw == ClockWrites(log)
              IN  /\ Len(log) = 24
                  /\ Len(SelectSeq(cw, LAMBDA e : e.level)) = 8
                  /\ Len(SelectSeq(cw, LAMBDA e : ~e.level)) = 8
                  /\ \A k \in 1 .. Len(cw) : cw[k].level = (k % 2 = 1)
                  /\ \A k \in 1 .. Len(cw) : cw[k].clk = ~cw[k].level
                  /\ clock = FALSE)

\* A shift_out call of 0b10110010, LSB-first, has returned.
C6_Witness ==
    /\ call = "out1" /\ step = "return"
    /\ value = 178 /\ msb_out = FALSE
    /\ DataWrites(log) = <<FALSE, TRUE, FALSE, FALSE, TRUE, TRUE, FALSE, TRUE>>

\* The samples shift_in has taken, in order.
Reads(lg) == SelectSeq(lg, LAMBDA e : e.line = "data" /\ e.op = "read")

RECURSIVE Accumulated(_, _, _)
\* The samples r[1..n], each at its bit: 7-(j-1) when msb, j-1 otherwise.
Accumulated(r, n, msb) ==
    IF n = 0 THEN 0
    ELSE Accumulated(r, n - 1, msb)
         + (IF r[n].level THEN 2 ^ (IF msb THEN 7 - (n - 1) ELSE n - 1) ELSE 0)

-----------------------------------------------------------------------------
(* Properties of bitWrite (SpecBit).                                       *)

\* C7: for x >= 0, n in 0..7 and b in {0, 1}, bitWrite(x, n, b) is x with
\* bit n set to b and every other bit unchanged.
C7_OnlyBitNChanged ==
    (bpc = "done") =>
        bres = bx - ArithBit(bx, bn) * (2 ^ bn) + bb * (2 ^ bn)

-----------------------------------------------------------------------------
(* Properties of Servo (SpecServo).                                        *)

\* C8: after any assignments to angle, the stored angle is the last assigned
\* value clamped to [0, 180], and the duty cycle is that of a pulse of
\* min_pulse + (angle / 180) * (max_pulse - min_pulse) in a 20 ms period.
C8_PulseFromMinPulse ==
    (assigned # <<>>) =>
        /\ angle = (IF assigned[1] < 0 THEN 0
                    ELSE IF assigned[1] > 180 THEN 180 ELSE assigned[1])
        /\ duty_cycle =
              PyInt(FracMul(FracDiv(FracAdd(min_pulse,
                                            FracMul(Frac(angle, 180),
                                                    FracSub(max_pulse, min_pulse))),
                                    FromInt(20)),
                            FromInt(65535)))

-----------------------------------------------------------------------------
(* Properties of tone (SpecTone).                                          *)

Count(sq, v) == Len(SelectSeq(sq, LAMBDA e : e = v))

\* C9: for a frequency with an even length = 4000 // frequency >= 2, the
\* buffer handed to AudioOut holds as many 0xFFFF samples as 0 samples.
C9_HalfHighHalfLow ==
    (tpc = "sleep" /\ audio = "ok"
       /\ (4000 \div frequency) % 2 = 0 /\ (4000 \div frequency) >= 2) =>
        Count(output.buffer, 65535) = Count(output.buffer, 0)

====
